---- MODULE Spec2Model ----
(***************************************************************************)
(* Model of scheduleConverter.py: the search / substitute / diff engine    *)
(* of EWDatabaseRewriter and its two passes over the schedule database.    *)
(*                                                                         *)
(* Strings are sequences of one-character strings.  Indices are Python's   *)
(* (0-based, half-open slices); Slice converts to TLA+ sequences.          *)
(***************************************************************************)
EXTENDS Integers, Sequences, FiniteSets, TLC

VARIABLES
    ignorecase,     \* self.ignorecase
    dryRun,         \* self.dryRun
    useregex,       \* the mode chosen in __init__
    search,         \* self.input: a string (plain) or a compiled pattern (regex)
    replacewith,    \* self.replacewith
    pc,             \* position of the program
    value,          \* the cell value handed to substituteValue / printDifference
    newValue,       \* the value substituteValue returned
    lastIndex,      \* local of substituteValuePlain / printDifference*
    newstr,         \* local of substituteValuePlain
    discrepency,    \* local of printDifference*
    original,       \* local of printDifference*: the rendered original line
    new,            \* local of printDifference*: the rendered new line
    steps,          \* iterations of the running loop so far
    db0,            \* the database file before the run
    db,             \* the database as the connection sees it (staged updates included)
    disk,           \* the database file (committed state)
    tables_with_string, \* the MatchReport: [order |-> tables, cols |-> table -> columns]
    found_occurences,   \* total_occurences returned by the scan
    replaced_count, \* local of startReplacement
    processed,      \* log: the (table, column, rowid) cells counted by startReplacement
    updates,        \* log: the (table, column, rowid) cells an UPDATE was executed for
    commits,        \* number of conn.commit() calls
    ti, ci, ri      \* position of startReplacement's three loops

vars == <<ignorecase, dryRun, useregex, search, replacewith, pc, value, newValue,
          lastIndex, newstr, discrepency, original, new, steps, db0, db, disk,
          tables_with_string, found_occurences, replaced_count, processed, updates,
          commits, ti, ci, ri>>

strVars == <<value, newValue, lastIndex, newstr, discrepency, original, new, steps>>
dbVars == <<db0, db, disk, tables_with_string, found_occurences, replaced_count,
            processed, updates, commits, ti, ci, ri>>

----------------------------------------------------------------------------
(* Bounds *)
MaxValLen == 3      \* longest value of the string-level specifications
MaxPatLen == 2      \* longest search string
MaxRepLen == 2      \* longest replacement
MaxSteps == 5       \* cap on the iterations of a loop that never exits
MaxRows == 2        \* rows of table Songs

Alphabet == {"a", "A", "b"}

Strings(n) == UNION {[1..k -> Alphabet] : k \in 0..n}

----------------------------------------------------------------------------
(* Python's str operations, as the code uses them *)

UpperCase == <<"A","B","C","D","E","F","G","H","I","J","K","L","M",
               "N","O","P","Q","R","S","T","U","V","W","X","Y","Z">>
LowerCase == <<"a","b","c","d","e","f","g","h","i","j","k","l","m",
               "n","o","p","q","r","s","t","u","v","w","x","y","z">>

\* one character of str.lower()
LowerChar(c) ==
    IF \E i \in 1..26 : UpperCase[i] = c
    THEN LowerCase[CHOOSE i \in 1..26 : UpperCase[i] = c]
    ELSE c

\* str.lower()
Lower(s) == [i \in 1..Len(s) |-> LowerChar(s[i])]

Min(a, b) == IF a < b THEN a ELSE b
Max(a, b) == IF a > b THEN a ELSE b

\* a slice bound as Python normalises it: negative counts from the end, then clamp
SliceIndex(s, i) == IF i < 0 THEN Max(i + Len(s), 0) ELSE Min(i, Len(s))

\* s[i:j]
Slice(s, i, j) == SubSeq(s, SliceIndex(s, i) + 1, SliceIndex(s, j))

\* s[i:]
SliceFrom(s, i) == SubSeq(s, SliceIndex(s, i) + 1, Len(s))

\* s.find(sub, start) for start >= 0: lowest index >= start, or -1
Find(s, sub, start) ==
    LET hits == {i \in start..(Len(s) - Len(sub)) : SubSeq(s, i + 1, i + Len(sub)) = sub}
    IN  IF hits = {} THEN -1 ELSE CHOOSE i \in hits : \A j \in hits : i <= j

\* sub in s
Contains(sub, s) == Find(s, sub, 0) >= 0

RECURSIVE ReplaceFrom(_, _, _, _)
\* s.replace(old, new) from position pos on, old non-empty
ReplaceFrom(s, old, new_, pos) ==
    LET idx == Find(s, old, pos)
    IN  IF idx < 0 THEN SliceFrom(s, pos)
        ELSE Slice(s, pos, idx) \o new_ \o ReplaceFrom(s, old, new_, idx + Len(old))

RECURSIVE Interleave(_, _, _)
\* s.replace("", new): new before every character and at the end
Interleave(s, new_, pos) ==
    IF pos >= Len(s) THEN new_
    ELSE new_ \o <<s[pos + 1]>> \o Interleave(s, new_, pos + 1)

\* s.replace(old, new)
Replace(s, old, new_) ==
    IF old = <<>> THEN Interleave(s, new_, 0) ELSE ReplaceFrom(s, old, new_, 0)

----------------------------------------------------------------------------
(* Rendered lines: a sequence of segments.  bcolors.fail(x) / okgreen(x)   *)
(* wrap x in a colour code and a reset; the text of a segment is x.        *)

Plain(x) == [mark |-> "none", text |-> x]
\* bcolors.fail
fail(x) == [mark |-> "fail", text |-> x]
\* bcolors.okgreen
okgreen(x) == [mark |-> "okgreen", text |-> x]
\* bcolors.fail('- ') and bcolors.okgreen('+ '), the line prefixes
OriginalHeader == [mark |-> "header", text |-> <<"-", " ">>]
NewHeader == [mark |-> "header", text |-> <<"+", " ">>]

RECURSIVE Concat(_)
Concat(segs) == IF segs = <<>> THEN <<>> ELSE Head(segs).text \o Concat(Tail(segs))

\* a rendered line with its markers (colour codes and line prefix) removed
Unmarked(line) == Concat(SelectSeq(line, LAMBDA g : g.mark # "header"))

----------------------------------------------------------------------------
(* Plain mode *)

\* searchValuePlain
searchValuePlain(ic, searchstring, v) ==
    IF ic THEN Contains(Lower(searchstring), Lower(v))
    ELSE Contains(searchstring, v)

\* one iteration of the while loop of substituteValuePlain
SubstituteIter(searchstring, replacement, v, st) ==
    LET index == Find(Lower(v), Lower(searchstring), st.lastIndex)
    IN  IF index < 0
        THEN [newstr |-> st.newstr \o SliceFrom(v, st.lastIndex),
              lastIndex |-> Len(v)]
        ELSE [newstr |-> st.newstr \o Slice(v, st.lastIndex, index) \o replacement,
              lastIndex |-> index + Len(searchstring)]

RECURSIVE SubstituteLoop(_, _, _, _)
\* the while loop of substituteValuePlain run to its end; hang: it never exits
\* (an iteration that leaves lastIndex where it was repeats for ever, since
\* the index found depends on lastIndex alone)
SubstituteLoop(searchstring, replacement, v, st) ==
    IF ~(st.lastIndex < Len(v)) THEN [hang |-> FALSE, out |-> st.newstr]
    ELSE LET nx == SubstituteIter(searchstring, replacement, v, st)
         IN  IF nx.lastIndex = st.lastIndex THEN [hang |-> TRUE, out |-> <<>>]
             ELSE SubstituteLoop(searchstring, replacement, v, nx)

\* substituteValuePlain
substituteValuePlain(ic, searchstring, replacement, v) ==
    IF ic THEN [hang |-> FALSE, out |-> Replace(v, searchstring, replacement)]
    ELSE SubstituteLoop(searchstring, replacement, v, [newstr |-> <<>>, lastIndex |-> 0])

\* one iteration of the while loop of printDifferencePlain
DifferenceIter(ic, search_, replace, v, nv, st) ==
    LET searchlen == Len(search_)
        stdDiscrepency == Len(replace) - searchlen
        index == IF ic THEN Find(Lower(v), Lower(search_), st.lastIndex)
                 ELSE Find(v, search_, st.lastIndex)
        found == ~(index < 0)
        orig1 == IF found
                 THEN st.original \o <<Plain(Slice(v, st.lastIndex, index)),
                                        fail(Slice(v, index, index + searchlen))>>
                 ELSE st.original
        new1 == IF found
                THEN st.new \o <<Plain(Slice(nv, st.lastIndex + st.discrepency,
                                             index + st.discrepency)),
                                 okgreen(replace)>>
                ELSE st.new
        last1 == IF found THEN index + searchlen ELSE Len(v)
        disc1 == IF found THEN st.discrepency - stdDiscrepency ELSE st.discrepency
    IN  [lastIndex |-> last1,
         discrepency |-> disc1,
         original |-> orig1 \o <<Plain(SliceFrom(v, last1))>>,
         new |-> new1 \o <<Plain(SliceFrom(nv, last1 + disc1))>>]

\* the locals of printDifference* before the loop
DifferenceStart ==
    [lastIndex |-> 0, discrepency |-> 0,
     original |-> <<OriginalHeader>>, new |-> <<NewHeader>>]

RECURSIVE DifferenceLoop(_, _, _, _, _, _)
\* the while loop of printDifferencePlain run to its end
DifferenceLoop(ic, search_, replace, v, nv, st) ==
    IF ~(st.lastIndex < Len(v)) THEN [hang |-> FALSE, original |-> st.original, new |-> st.new]
    ELSE LET nx == DifferenceIter(ic, search_, replace, v, nv, st)
         IN  IF nx.lastIndex = st.lastIndex
             THEN [hang |-> TRUE, original |-> <<>>, new |-> <<>>]
             ELSE DifferenceLoop(ic, search_, replace, v, nv, nx)

\* printDifferencePlain
printDifferencePlain(ic, search_, replace, v, nv) ==
    DifferenceLoop(ic, search_, replace, v, nv, DifferenceStart)

----------------------------------------------------------------------------
(* Regex mode.  A compiled pattern is [lit, ahead]: the literal lit        *)
(* followed by the lookahead (?=ahead); ahead = <<>> is a plain literal.   *)
(* re.IGNORECASE is the flag ic.  A replacement template is a sequence of  *)
(* characters and of the token \g<0>, the whole match.                     *)

GroupZero == "\\g<0>"

\* equality of two strings under the pattern's case flag
SameText(ic, x, y) == IF ic THEN Lower(x) = Lower(y) ELSE x = y

\* the pattern matches at index i of s
MatchesAt(rx, ic, s, i) ==
    /\ i + Len(rx.lit) + Len(rx.ahead) <= Len(s)
    /\ SameText(ic, SubSeq(s, i + 1, i + Len(rx.lit)), rx.lit)
    /\ SameText(ic, SubSeq(s, i + Len(rx.lit) + 1, i + Len(rx.lit) + Len(rx.ahead)),
                rx.ahead)

RECURSIVE finditerFrom(_, _, _, _)
\* pattern.finditer(s) from pos on: the non-overlapping matches, left to right
finditerFrom(rx, ic, s, pos) ==
    LET hits == {i \in pos..Len(s) : MatchesAt(rx, ic, s, i)}
    IN  IF hits = {} THEN <<>>
        ELSE LET i == CHOOSE h \in hits : \A j \in hits : h <= j
             IN  <<[start |-> i, end |-> i + Len(rx.lit)]>>
                 \o finditerFrom(rx, ic, s, i + Len(rx.lit))

\* pattern.finditer(s)
finditer(rx, ic, s) == finditerFrom(rx, ic, s, 0)

\* searchValueRegex: pattern.search(v) is a match object (truthy) or None
searchValueRegex(rx, ic, v) == finditer(rx, ic, v) # <<>>

RECURSIVE Expand(_, _)
\* the template expanded for one match
Expand(template, matched) ==
    IF template = <<>> THEN <<>>
    ELSE (IF Head(template) = GroupZero THEN matched ELSE <<Head(template)>>)
         \o Expand(Tail(template), matched)

RECURSIVE SubFrom(_, _, _, _)
SubFrom(template, s, ms, pos) ==
    IF ms = <<>> THEN SliceFrom(s, pos)
    ELSE Slice(s, pos, Head(ms).start)
         \o Expand(template, Slice(s, Head(ms).start, Head(ms).end))
         \o SubFrom(template, s, Tail(ms), Head(ms).end)

\* substituteValueRegex: re.sub(pattern, replacement, s)
substituteValueRegex(rx, ic, template, s) == SubFrom(template, s, finditer(rx, ic, s), 0)

\* the body of printDifferenceRegex's for loop, for the match m
DifferenceRegexIter(rx, ic, replace, v, nv, m, st) ==
    LET sublen == Len(substituteValueRegex(rx, ic, replace, Slice(v, m.start, m.end)))
    IN  [lastIndex |-> m.end,
         discrepency |-> st.discrepency + sublen - (m.end - m.start),
         original |-> st.original
                      \o <<Plain(Slice(v, st.lastIndex, m.start)),
                           fail(Slice(v, m.start, m.end))>>,
         new |-> st.new
                 \o <<Plain(Slice(nv, st.lastIndex + st.discrepency,
                                  m.start + st.discrepency)),
                      okgreen(Slice(nv, m.start + st.discrepency,
                                    m.start + st.discrepency + sublen))>>]

\* the two appends after printDifferenceRegex's loop
DifferenceRegexTail(v, nv, st) ==
    [lastIndex |-> st.lastIndex,
     discrepency |-> st.discrepency,
     original |-> st.original \o <<Plain(SliceFrom(v, st.lastIndex))>>,
     new |-> st.new \o <<Plain(SliceFrom(nv, st.lastIndex + st.discrepency))>>]

----------------------------------------------------------------------------
(* The string-level specifications: substituteValue followed by            *)
(* printDifference on one value, the loops taken one iteration at a time.  *)

NoDatabase ==
    /\ db0 = <<>> /\ db = <<>> /\ disk = <<>>
    /\ tables_with_string = <<>>
    /\ found_occurences = 0 /\ replaced_count = 0
    /\ processed = <<>> /\ updates = <<>> /\ commits = 0
    /\ ti = 0 /\ ci = 0 /\ ri = 0

NoLocals ==
    /\ newValue = <<>> /\ lastIndex = 0 /\ newstr = <<>> /\ discrepency = 0
    /\ original = <<>> /\ new = <<>> /\ steps = 0

InitPlain ==
    /\ useregex = FALSE
    /\ dryRun = TRUE
    /\ ignorecase \in BOOLEAN
    /\ search \in Strings(MaxPatLen)
    /\ replacewith \in Strings(MaxRepLen)
    /\ value \in Strings(MaxValLen)
    /\ pc = "substitute"
    /\ NoLocals
    /\ NoDatabase

config == <<ignorecase, dryRun, useregex, search, replacewith>>

\* substituteValuePlain, lines 273-274
SubstituteReplace ==
    /\ pc = "substitute"
    /\ ignorecase
    /\ newValue' = Replace(value, search, replacewith)
    /\ pc' = "substituted"
    /\ UNCHANGED <<config, value, lastIndex, newstr, discrepency, original, new, steps, dbVars>>

\* substituteValuePlain, lines 276-277
SubstituteEnter ==
    /\ pc = "substitute"
    /\ ~ignorecase
    /\ newstr' = <<>>
    /\ lastIndex' = 0
    /\ steps' = 0
    /\ pc' = "substitute_loop"
    /\ UNCHANGED <<config, value, newValue, discrepency, original, new, dbVars>>

\* substituteValuePlain, lines 278-286: one iteration
SubstituteStep ==
    /\ pc = "substitute_loop"
    /\ lastIndex < Len(value)
    /\ steps < MaxSteps
    /\ LET nx == SubstituteIter(search, replacewith, value,
                                [newstr |-> newstr, lastIndex |-> lastIndex])
       IN  /\ newstr' = nx.newstr
           /\ lastIndex' = nx.lastIndex
    /\ steps' = steps + 1
    /\ UNCHANGED <<config, pc, value, newValue, discrepency, original, new, dbVars>>

\* substituteValuePlain, line 287
SubstituteReturn ==
    /\ pc = "substitute_loop"
    /\ ~(lastIndex < Len(value))
    /\ newValue' = newstr
    /\ pc' = "substituted"
    /\ UNCHANGED <<config, value, lastIndex, newstr, discrepency, original, new, steps, dbVars>>

\* printDifference*, the locals set before the loop
DifferenceEnter ==
    /\ pc = "substituted"
    /\ lastIndex' = DifferenceStart.lastIndex
    /\ discrepency' = DifferenceStart.discrepency
    /\ original' = DifferenceStart.original
    /\ new' = DifferenceStart.new
    /\ steps' = 0
    /\ pc' = "difference_loop"
    /\ UNCHANGED <<config, value, newValue, newstr, dbVars>>

DifferenceLocals == [lastIndex |-> lastIndex, discrepency |-> discrepency,
                     original |-> original, new |-> new]

SetDifferenceLocals(nx) ==
    /\ lastIndex' = nx.lastIndex
    /\ discrepency' = nx.discrepency
    /\ original' = nx.original
    /\ new' = nx.new

\* printDifferencePlain, lines 317-337: one iteration
DifferenceStep ==
    /\ pc = "difference_loop"
    /\ lastIndex < Len(value)
    /\ steps < MaxSteps
    /\ SetDifferenceLocals(DifferenceIter(ignorecase, search, replacewith, value,
                                          newValue, DifferenceLocals))
    /\ steps' = steps + 1
    /\ UNCHANGED <<config, pc, value, newValue, newstr, dbVars>>

\* printDifferencePlain, lines 339-341
DifferenceReturn ==
    /\ pc = "difference_loop"
    /\ ~(lastIndex < Len(value))
    /\ pc' = "printed"
    /\ UNCHANGED <<config, strVars, dbVars>>

NextPlain ==
    \/ SubstituteReplace
    \/ SubstituteEnter
    \/ SubstituteStep
    \/ SubstituteReturn
    \/ DifferenceEnter
    \/ DifferenceStep
    \/ DifferenceReturn

SpecPlain == InitPlain /\ [][NextPlain]_vars

----------------------------------------------------------------------------

Regexes == {[lit |-> l, ahead |-> a] : l \in Strings(MaxPatLen) \ {<<>>}, a \in Strings(1)}

Templates(n) == UNION {[1..k -> {"a", "b", GroupZero}] : k \in 0..n}

InitRegex ==
    /\ useregex = TRUE
    /\ dryRun = TRUE
    /\ ignorecase \in BOOLEAN
    /\ search \in Regexes
    /\ replacewith \in Templates(MaxRepLen)
    /\ value \in Strings(MaxValLen)
    /\ pc = "substitute"
    /\ NoLocals
    /\ NoDatabase

\* substituteValueRegex, line 299
SubstituteRegex ==
    /\ pc = "substitute"
    /\ newValue' = substituteValueRegex(search, ignorecase, replacewith, value)
    /\ pc' = "substituted"
    /\ UNCHANGED <<config, value, lastIndex, newstr, discrepency, original, new, steps, dbVars>>

\* printDifferenceRegex, lines 357-367: the loop body for the next match
DifferenceRegexStep ==
    /\ pc = "difference_loop"
    /\ LET matches == finditer(search, ignorecase, value)
       IN  /\ steps < Len(matches)
           /\ SetDifferenceLocals(DifferenceRegexIter(search, ignorecase, replacewith, value,
                                                      newValue, matches[steps + 1],
                                                      DifferenceLocals))
    /\ steps' = steps + 1
    /\ UNCHANGED <<config, pc, value, newValue, newstr, dbVars>>

\* printDifferenceRegex, lines 369-374
DifferenceRegexReturn ==
    /\ pc = "difference_loop"
    /\ steps = Len(finditer(search, ignorecase, value))
    /\ SetDifferenceLocals(DifferenceRegexTail(value, newValue, DifferenceLocals))
    /\ pc' = "printed"
    /\ UNCHANGED <<config, value, newValue, newstr, steps, dbVars>>

NextRegex ==
    \/ SubstituteRegex
    \/ DifferenceEnter
    \/ DifferenceRegexStep
    \/ DifferenceRegexReturn

SpecRegex == InitRegex /\ [][NextRegex]_vars

----------------------------------------------------------------------------
(* The database.  A database maps each table to its rows (rowid = index),  *)
(* a row maps each column to a cell, a cell is [type, val]: val is the     *)
(* text of a str cell, or the digits / bytes of a cell that is no str.     *)

Text(s) == [type |-> "text", val |-> s]
Integer(s) == [type |-> "integer", val |-> s]

\* isinstance(cell, str)
IsStr(cell) == cell.type = "text"

\* the tables in sqlite_master order
TableOrder == <<"Songs", "Items">>

\* cursor.description of "select * from t"
Columns(t) == IF t = "Songs" THEN <<"id", "title">> ELSE <<"title">>

Range(f) == {f[i] : i \in DOMAIN f}

\* getTables
getTables(d) == SelectSeq(TableOrder, LAMBDA t : t \in DOMAIN d)

\* self.searchValue, as __init__ binds it
searchValue(v) ==
    IF useregex THEN searchValueRegex(search, ignorecase, v)
    ELSE searchValuePlain(ignorecase, search, v)

\* self.substituteValue, as __init__ binds it: [hang, out]
substituteValue(v) ==
    IF useregex
    THEN [hang |-> FALSE, out |-> substituteValueRegex(search, ignorecase, replacewith, v)]
    ELSE substituteValuePlain(ignorecase, search, replacewith, v)

\* self.printDifference, as __init__ binds it: does the call return?
printDifferenceHangs(v, nv) ==
    IF useregex THEN FALSE
    ELSE printDifferencePlain(ignorecase, search, replacewith, v, nv).hang

\* lines 178-182: the column recorded under its table, once
AddColumn(tws, t, name) ==
    IF \E k \in 1..Len(tws) : tws[k].table = t
    THEN [k \in 1..Len(tws) |->
            IF tws[k].table = t /\ name \notin Range(tws[k].columns)
            THEN [table |-> t, columns |-> Append(tws[k].columns, name)]
            ELSE tws[k]]
    ELSE Append(tws, [table |-> t, columns |-> <<name>>])

\* line 183 run once per newly recorded column instead of once per matching cell
ScanCellPerColumn(acc, t, name, cell) ==
    IF IsStr(cell) /\ searchValue(cell.val)
    THEN [tws |-> AddColumn(acc.tws, t, name),
          total |-> IF AddColumn(acc.tws, t, name) = acc.tws
                    THEN acc.total ELSE acc.total + 1]
    ELSE acc

\* lines 176-183: one cell of the scan
ScanCell(acc, t, name, cell) ==
    IF IsStr(cell) /\ searchValue(cell.val)
    THEN [tws |-> AddColumn(acc.tws, t, name), total |-> acc.total + 1]
    ELSE acc

RECURSIVE ScanRow(_, _, _, _)
\* line 175: the cells of one row, in column order
ScanRow(acc, t, row, i) ==
    IF i > Len(Columns(t)) THEN acc
    ELSE ScanRow(ScanCell(acc, t, Columns(t)[i], row[Columns(t)[i]]), t, row, i + 1)

RECURSIVE ScanTable(_, _, _, _)
\* line 174: the rows of one table
ScanTable(acc, t, rows, r) ==
    IF r > Len(rows) THEN acc
    ELSE ScanTable(ScanRow(acc, t, rows[r], 1), t, rows, r + 1)

RECURSIVE ScanTables(_, _, _)
\* line 171: the tables
ScanTables(acc, d, tables) ==
    IF tables = <<>> THEN acc
    ELSE ScanTables(ScanTable(acc, Head(tables), d[Head(tables)], 1), d, Tail(tables))

\* getTablesWhereStringExists
getTablesWhereStringExists(d) == ScanTables([tws |-> <<>>, total |-> 0], d, getTables(d))

\* lines 215-226: what happens to one row of the cursor
\*   "error": searchValue raises (value is no str)
\*   "skip": no match;  "hung": substituteValue or printDifference never returns
\*   "ok": the cell is printed or updated, and counted
CellOutcome(dry, cell) ==
    IF ~IsStr(cell) THEN "error"
    ELSE IF ~searchValue(cell.val) THEN "skip"
    ELSE IF substituteValue(cell.val).hang THEN "hung"
    ELSE IF dry /\ printDifferenceHangs(cell.val, substituteValue(cell.val).out) THEN "hung"
    ELSE "ok"

\* conn.commit() never reaching the file
CommitLost(dry, view, file) == file

\* lines 227-228: the file after the column's rows
Commit(dry, view, file) == IF ~dry THEN view ELSE file

\* the cell written by "update t set col=? where rowid=?"
UpdateCell(d, t, col, rowid, v) ==
    [d EXCEPT ![t] = [@ EXCEPT ![rowid] = [@ EXCEPT ![col] = Text(v)]]]

----------------------------------------------------------------------------
(* The run of EWDatabaseRewriter: runReplacement scans, then               *)
(* startReplacement walks the flagged columns row by row.                  *)

AmazingGrace ==
    <<"A", "m", "a", "z", "i", "n", "g", " ", "G", "r", "a", "c", "e">>
HowGreatThouArt ==
    <<"H", "o", "w", " ", "G", "r", "e", "a", "t", " ", "T", "h", "o", "u",
      " ", "A", "r", "t">>
HowGREATThouArt ==
    <<"H", "o", "w", " ", "G", "R", "E", "A", "T", " ", "T", "h", "o", "u",
      " ", "A", "r", "t">>

\* the database of the Songs scenario
SongsExample ==
    [t \in {"Songs"} |->
        <<[id |-> Integer(<<"1">>), title |-> Text(AmazingGrace)],
          [id |-> Integer(<<"2">>), title |-> Text(HowGreatThouArt)]>>]

\* the cells of the enumerated databases: a text the searches match in some
\* mode, a text none matches, and a cell that is no str
CellDomain == {Text(<<"x", "G">>), Text(<<"x">>), Integer(<<"5">>)}

RowsOf(t, n) == [1..n -> [Range(Columns(t)) -> CellDomain]]

Databases ==
    {[t \in {"Songs", "Items"} |-> IF t = "Songs" THEN s ELSE i] :
        s \in RowsOf("Songs", MaxRows), i \in RowsOf("Items", 1)}

PlainSearches == {<<>>, <<"g">>, <<"G">>}
RegexSearches == {[lit |-> <<"g">>, ahead |-> <<>>]}
Replacements == {<<"y">>, <<"g", "g">>}

InitRun ==
    /\ pc = "scan"
    /\ db = db0 /\ disk = db0
    /\ tables_with_string = <<>>
    /\ found_occurences = 0 /\ replaced_count = 0
    /\ processed = <<>> /\ updates = <<>> /\ commits = 0
    /\ ti = 1 /\ ci = 1 /\ ri = 1
    /\ value = <<>>
    /\ NoLocals

Init ==
    /\ dryRun \in BOOLEAN
    /\ \/ /\ db0 \in Databases
          /\ ignorecase \in BOOLEAN
          /\ replacewith \in Replacements
          /\ \/ useregex = FALSE /\ search \in PlainSearches
             \/ useregex = TRUE /\ search \in RegexSearches
       \/ /\ db0 = SongsExample
          /\ ignorecase = TRUE
          /\ useregex = FALSE
          /\ search = <<"g", "r", "e", "a", "t">>
          /\ replacewith = <<"G", "R", "E", "A", "T">>
    /\ InitRun

\* runReplacement, lines 144-149: the scan, and the branch on its count
Scan ==
    /\ pc = "scan"
    /\ LET res == getTablesWhereStringExists(db)
       IN  /\ tables_with_string' = res.tws
           /\ found_occurences' = res.total
           /\ pc' = IF res.total > 0 THEN "replace" ELSE "done"
    /\ UNCHANGED <<config, strVars, db0, db, disk, replaced_count, processed, updates,
                   commits, ti, ci, ri>>

\* the table and column startReplacement's loops are at
CurTable == tables_with_string[ti].table
CurColumn == tables_with_string[ti].columns[ci]

\* startReplacement, lines 214-226: the next row of the cursor
ProcessRow ==
    /\ pc = "replace"
    /\ ti <= Len(tables_with_string)
    /\ ri <= Len(db[CurTable])
    /\ LET cell == db[CurTable][ri][CurColumn]
           outcome == CellOutcome(dryRun, cell)
           counted == outcome = "ok"
           key == <<CurTable, CurColumn, ri>>
       IN  /\ pc' = IF outcome \in {"error", "hung"} THEN outcome ELSE pc
           /\ ri' = IF outcome \in {"error", "hung"} THEN ri ELSE ri + 1
           /\ db' = IF counted /\ ~dryRun
                    THEN UpdateCell(db, CurTable, CurColumn, ri, substituteValue(cell.val).out)
                    ELSE db
           /\ updates' = IF counted /\ ~dryRun THEN Append(updates, key) ELSE updates
           /\ processed' = IF counted THEN Append(processed, key) ELSE processed
           /\ replaced_count' = IF counted THEN replaced_count + 1 ELSE replaced_count
    /\ UNCHANGED <<config, strVars, db0, disk, tables_with_string, found_occurences,
                   commits, ti, ci>>

\* startReplacement, lines 227-229: the cursor is exhausted
EndColumn ==
    /\ pc = "replace"
    /\ ti <= Len(tables_with_string)
    /\ ri > Len(db[CurTable])
    /\ disk' = Commit(dryRun, db, disk)
    /\ commits' = IF ~dryRun THEN commits + 1 ELSE commits
    /\ IF ci < Len(tables_with_string[ti].columns)
       THEN ci' = ci + 1 /\ ti' = ti
       ELSE ci' = 1 /\ ti' = ti + 1
    /\ ri' = 1
    /\ UNCHANGED <<config, strVars, pc, db0, db, tables_with_string, found_occurences,
                   replaced_count, processed, updates>>

\* startReplacement, lines 231-240, and runReplacement's close
Finish ==
    /\ pc = "replace"
    /\ ti > Len(tables_with_string)
    /\ pc' = "done"
    /\ UNCHANGED <<config, strVars, dbVars>>

Next ==
    \/ Scan
    \/ ProcessRow
    \/ EndColumn
    \/ Finish

Spec == Init /\ [][Next]_vars

RECURSIVE ColumnCells(_, _, _, _)
\* line 214: the cells "select rowid, col from t" delivers, in rowid order
ColumnCells(d, t, col, r) ==
    IF r > Len(d[t]) THEN <<>>
    ELSE <<<<t, col, r>>>> \o ColumnCells(d, t, col, r + 1)

RECURSIVE FlaggedCells(_, _, _, _)
\* lines 210-214: the cells startReplacement visits, in its order
FlaggedCells(tws, d, k, j) ==
    IF k > Len(tws) THEN <<>>
    ELSE IF j > Len(tws[k].columns) THEN FlaggedCells(tws, d, k + 1, 1)
    ELSE ColumnCells(d, tws[k].table, tws[k].columns[j], 1)
         \o FlaggedCells(tws, d, k, j + 1)

RECURSIVE RunCells(_, _, _, _)
\* lines 214-226 over the cells left: how the pass ends and what it counted
RunCells(dry, cells, d, log) ==
    IF cells = <<>> THEN [status |-> "done", log |-> log]
    ELSE LET key == Head(cells)
             outcome == CellOutcome(dry, d[key[1]][key[3]][key[2]])
         IN  IF outcome \in {"error", "hung"} THEN [status |-> outcome, log |-> log]
             ELSE RunCells(dry, Tail(cells), d,
                           IF outcome = "ok" THEN Append(log, key) ELSE log)

\* startReplacement as one function of the MatchReport and the database
startReplacement(dry, tws, d) == RunCells(dry, FlaggedCells(tws, d, 1, 1), d, <<>>)

----------------------------------------------------------------------------
(* Properties *)

Stopped == pc \in {"done", "error", "hung"}

RECURSIVE ReplaceEveryOccurrence(_, _, _, _)
\* the value with every case-insensitive occurrence of pattern replaced once, left
\* to right, the other characters kept
ReplaceEveryOccurrence(pattern, replacement, v, pos) ==
    IF pos >= Len(v) THEN <<>>
    ELSE IF /\ pos + Len(pattern) <= Len(v)
            /\ Lower(SubSeq(v, pos + 1, pos + Len(pattern))) = Lower(pattern)
         THEN replacement \o ReplaceEveryOccurrence(pattern, replacement, v, pos + Len(pattern))
         ELSE <<v[pos + 1]>> \o ReplaceEveryOccurrence(pattern, replacement, v, pos + 1)

\* C1: in plain mode with ignorecase set, substituteValuePlain returns the value
\* with every case-insensitive occurrence of a non-empty search string replaced
\* once, left to right, by the replacement, the other text unchanged.
C1_ReplacesEveryCaseInsensitiveOccurrence ==
    (pc = "substituted" /\ ignorecase /\ search # <<>>)
        => newValue = ReplaceEveryOccurrence(search, replacewith, value, 0)

\* C2: a non-empty search string that the mode's searchValue does not find in the
\* value leaves the value unchanged, and without ignorecase the result is the
\* ordinary replace-all of the value.
C2_NoMatchLeavesValue ==
    (pc = "substituted" /\ search # <<>>)
        => /\ ~searchValuePlain(ignorecase, search, value) => newValue = value
           /\ ~ignorecase => newValue = Replace(value, search, replacewith)

\* C3: when printDifferencePlain has rendered its two lines, the original line
\* without its markers is the original value and the new line without its
\* markers is the substituted value.
C3_PlainDiffReconstructs ==
    pc = "printed" => /\ Unmarked(original) = value
                      /\ Unmarked(new) = newValue

\* the text substituted for the j-th match of the value
SubstitutedFor(j) ==
    LET m == finditer(search, ignorecase, value)[j]
    IN  Expand(replacewith, Slice(value, m.start, m.end))

RECURSIVE OffsetAfter(_)
\* the sum of (newLength - oldLength) over the first k matches
OffsetAfter(k) ==
    IF k = 0 THEN 0
    ELSE LET m == finditer(search, ignorecase, value)[k]
         IN  OffsetAfter(k - 1) + Len(SubstitutedFor(k)) - (m.end - m.start)

\* C4: in printDifferenceRegex, after the k-th match the cumulative offset is the
\* sum of (newLength - oldLength) over matches 1..k, the span marked inserted
\* for each match is the text substituted for it, and at the end the two lines
\* without their markers are the original and the substituted value.
C4_RegexDiffAligned ==
    LET inserted == SelectSeq(new, LAMBDA g : g.mark = "okgreen")
    IN  /\ pc = "difference_loop"
            => /\ discrepency = OffsetAfter(steps)
               /\ Len(inserted) = steps
               /\ \A j \in 1..steps : inserted[j].text = SubstitutedFor(j)
        /\ pc = "printed"
            => /\ Unmarked(original) = value
               /\ Unmarked(new) = newValue

\* the cells of the database before the run
AllCells ==
    UNION {{<<t, c, r>> : c \in Range(Columns(t)), r \in 1..Len(db0[t])} : t \in DOMAIN db0}

\* the text cells of the database before the run that match the Pattern
MatchingCells ==
    {key \in AllCells : /\ IsStr(db0[key[1]][key[3]][key[2]])
                        /\ searchValue(db0[key[1]][key[3]][key[2]].val)}

\* the positions of the MatchReport: entry k, column j of it
ReportEntries ==
    UNION {{<<k, j>> : j \in 1..Len(tables_with_string[k].columns)} :
              k \in 1..Len(tables_with_string)}

\* C5: after the scan a (table, column) pair is in the MatchReport iff a text
\* cell of that column matches, each pair is listed once, no table is listed
\* without a column, and the count is the number of matching text cells.
C5_ScanReport ==
    pc # "scan" =>
        /\ {<<tables_with_string[e[1]].table, tables_with_string[e[1]].columns[e[2]]>> :
                e \in ReportEntries}
             = {<<key[1], key[2]>> : key \in MatchingCells}
        /\ Cardinality(ReportEntries) = Cardinality({<<key[1], key[2]>> : key \in MatchingCells})
        /\ \A k \in 1..Len(tables_with_string) : tables_with_string[k].columns # <<>>
        /\ found_occurences = Cardinality(MatchingCells)

\* C5 witness: a scan found a column with two matching rows, next to a table
\* without any match
C5_Witness ==
    /\ pc # "scan"
    /\ \E a \in MatchingCells, b \in MatchingCells :
          a[1] = b[1] /\ a[2] = b[2] /\ a[3] # b[3]
    /\ \E t \in DOMAIN db0 : \A key \in MatchingCells : key[1] # t
    /\ found_occurences >= 2

\* C6: the substitution pass never raises, and when it is done the cells it
\* counted are as many as the scan counted, never more on the way.
C6_PassCompletes ==
    /\ pc # "error"
    /\ replaced_count <= found_occurences
    /\ pc = "done" => replaced_count = found_occurences

\* C7: a dry run executes no update and no commit and leaves every cell as it
\* was, and it counts the same cells, in the same order, with the same end, as
\* the write-mode pass over the same database and Pattern.
C7_DryRunLikeWriteRun ==
    dryRun =>
        /\ updates = <<>> /\ commits = 0
        /\ disk = db0 /\ db = db0
        /\ Stopped =>
              LET w == startReplacement(FALSE, tables_with_string, db0)
              IN  /\ pc = w.status
                  /\ processed = w.log
                  /\ replaced_count = Len(w.log)

ColumnDone(t, col) ==
    \E k \in 1..Len(tables_with_string) :
        \E j \in 1..Len(tables_with_string[k].columns) :
            /\ tables_with_string[k].table = t
            /\ tables_with_string[k].columns[j] = col
            /\ (k < ti \/ (k = ti /\ j < ci))

C9_WriteRunResult ==
    (~dryRun /\ pc = "done") =>
        /\ \A t \in DOMAIN db0 : \A r \in 1..Len(db0[t]) : \A c \in Range(Columns(t)) :
              disk[t][r][c] =
                  IF <<t, c, r>> \in MatchingCells
                  THEN Text(substituteValue(db0[t][r][c].val).out)
                  ELSE db0[t][r][c]
        /\ db0 = SongsExample =>
              /\ disk["Songs"][2]["title"] = Text(HowGREATThouArt)
              /\ disk["Songs"][1] = db0["Songs"][1]
              /\ replaced_count = 1

\* C10: every iteration of the plain-mode while loops strictly increases
\* lastIndex, and a loop runs at most len(value) iterations.
C10_LoopsTerminate ==
    [][(pc \in {"substitute_loop", "difference_loop"} /\ steps' = steps + 1)
          => (lastIndex' > lastIndex /\ steps' <= Len(value))]_vars

====
